---- MODULE Spec2Model ----
(***************************************************************************)
(* Model of the three-tier memory subsystem of evo                         *)
(* (evo/memory/__init__.py), of the FeedbackLoop that writes into it       *)
(* (evo/feedback/__init__.py) and of the EvoSystem constructor that        *)
(* injects it (evo/main.py); of the tool table and search index of the     *)
(* CapabilityRegistry (evo/capability/__init__.py); of the tool execution  *)
(* of the ActionLayer (evo/action/__init__.py); and of asyncio tasks that  *)
(* call into the memory.                                                   *)
(*                                                                         *)
(* Python values are tagged tuples: <<"s", str>> a string, <<"d", dict>>   *)
(* a nested dict, <<"i", n>> an int, <<"ref", o>> a reference to a caller  *)
(* dict object on the heap, <<"set", x>> a Python set, <<"None">> the     *)
(* None value.  A dict is the sequence of its <<key, value>> items in      *)
(* insertion order.                                                        *)
(***************************************************************************)
EXTENDS Integers, Sequences, FiniteSets, TLC

(***************************************************************************)
(* Bounds of the model.                                                    *)
(***************************************************************************)
MaxMems == 2
MaxObjs == 2
MaxLoops == 1
MaxSystems == 1
MaxCount == 2
MaxK == 2
HashMod == 97
MaxTasks == 2
MaxRetries == 2

(***************************************************************************)
(* Python values and the experience records of the model.                  *)
(***************************************************************************)
S(x) == <<"s", x>>
D(d) == <<"d", d>>
None == <<"None">>

CtxQN == << <<"q", S("ai")>>, <<"n", S("5")>> >>
CtxNQ == << <<"n", S("5")>>, <<"q", S("ai")>> >>

RSearch == << <<"action", S("search")>>, <<"timestamp", S("t1")>> >>
RCtxA == << <<"action", S("search")>>, <<"context", D(CtxQN)>> >>
RCtxB == << <<"context", D(CtxNQ)>>, <<"action", S("search")>> >>

Records == {RSearch, RCtxA, RCtxB}

\* a record json.dumps rejects: its context is a Python set
RMalformed == << <<"action", S("search")>>, <<"context", <<"set", "ai">> >> >>

REmail == << <<"action", S("email")>>, <<"timestamp", S("t1")>> >>

\* records of different content for the study of ids
REmailN == << <<"action", S("email")>>, <<"n", S("ai")>> >>
REmailAi == << <<"action", S("email")>>, <<"timestamp", S("ai")>> >>

IdRecords == {RSearch, REmail, REmailN, REmailAi}

\* three experiences whose actions are search, search and email: the two
\* search records different, identical, and equal up to the order of keys
Scenarios == {<<RSearch, RCtxA, REmail>>, <<RSearch, RSearch, REmail>>,
              <<RCtxA, RCtxB, REmail>>}

\* retrieve_similar(self, query, k=5)
DefaultK == 5

\* Config.ACTION_MAX_RETRIES = int(os.getenv("ACTION_MAX_RETRIES", "1"))
ACTION_MAX_RETRIES == 1

\* Python dict equality: same keys, equal values, whatever the item order.
RECURSIVE DictEq(_, _)
ValEq(v, w) ==
    IF v[1] = "d" /\ w[1] = "d" THEN DictEq(v[2], w[2]) ELSE v = w

DictEq(a, b) ==
    /\ Len(a) = Len(b)
    /\ \A i \in 1..Len(a) :
         \E j \in 1..Len(b) : a[i][1] = b[j][1] /\ ValEq(a[i][2], b[j][2])

\* dict.get(key, default)
DictGet(d, key, default) ==
    IF \E i \in 1..Len(d) : d[i][1] = key
    THEN d[CHOOSE i \in 1..Len(d) : d[i][1] = key][2]
    ELSE default

(***************************************************************************)
(* json.dumps(experience, sort_keys=True): the document is the sequence of *)
(* its JSON tokens; the items of every dict, at every nesting level, are   *)
(* written in the order of their keys.                                     *)
(***************************************************************************)
KeysSorted == <<"action", "context", "n", "q", "timestamp">>

KeyRank(k) == CHOOSE i \in 1..Len(KeysSorted) : KeysSorted[i] = k

RECURSIVE SortItems(_)
SortItems(d) ==
    IF Len(d) = 0 THEN <<>>
    ELSE LET m == CHOOSE i \in 1..Len(d) :
                    \A j \in 1..Len(d) : KeyRank(d[i][1]) <= KeyRank(d[j][1])
             rest == [j \in 1..(Len(d) - 1) |-> IF j < m THEN d[j] ELSE d[j + 1]]
         IN  <<d[m]>> \o SortItems(rest)

RECURSIVE DumpsItems(_, _)
DumpsVal(v, sort_keys) ==
    IF v[1] = "d"
    THEN <<"{">> \o DumpsItems(IF sort_keys THEN SortItems(v[2]) ELSE v[2], sort_keys)
                 \o <<"}">>
    ELSE <<v[2]>>

DumpsItems(d, sort_keys) ==
    IF Len(d) = 0 THEN <<>>
    ELSE <<d[1][1], ":">> \o DumpsVal(d[1][2], sort_keys)
         \o (IF Len(d) = 1 THEN <<>> ELSE <<",">> \o DumpsItems(Tail(d), sort_keys))

\* json.dumps raises TypeError for a value that is not a dict, a str or
\* None at any nesting level ("Object of type set is not JSON serializable")
RECURSIVE JsonSerializable(_)
JsonSerializable(d) ==
    \A i \in 1..Len(d) :
        \/ d[i][2][1] \in {"s", "None"}
        \/ d[i][2][1] = "d" /\ JsonSerializable(d[i][2][2])

\* json.dumps without sort_keys: the items in insertion order
json_dumps_insertion_order(experience, sort_keys) == DumpsVal(D(experience), FALSE)

json_dumps(experience, sort_keys) == DumpsVal(D(experience), sort_keys)

(***************************************************************************)
(* json.loads(doc): a recursive-descent parse of the token sequence; the   *)
(* dict it builds has its items in document order.                         *)
(***************************************************************************)
RECURSIVE ParseItems(_, _, _)
\* the value starting at token i, and the index of the token after it
ParseVal(toks, i) ==
    IF toks[i] = "{"
    THEN IF toks[i + 1] = "}"
         THEN [val |-> D(<<>>), next |-> i + 2]
         ELSE ParseItems(toks, i + 1, <<>>)
    ELSE [val |-> S(toks[i]), next |-> i + 1]

ParseItems(toks, i, acc) ==
    LET key == toks[i]
        pv == ParseVal(toks, i + 2)
        items == Append(acc, <<key, pv.val>>)
    IN  IF toks[pv.next] = ","
        THEN ParseItems(toks, pv.next + 1, items)
        ELSE [val |-> D(items), next |-> pv.next + 1]

json_loads(doc) == ParseVal(doc, 1).val[2]

(***************************************************************************)
(* hash(str) and str(int).  CPython hashes a str with a keyed hash whose   *)
(* key is drawn once per process; the model folds the tokens into a value  *)
(* below HashMod under the process seed and reads the upper half of the    *)
(* range as negative.  str() writes a sign and the decimal digits.         *)
(***************************************************************************)
Alphabet == <<"{", "}", ":", ",", "action", "context", "n", "q", "timestamp",
              "search", "email", "ai", "5", "t1">>

TokCode(t) == CHOOSE i \in 1..Len(Alphabet) : Alphabet[i] = t

Seeds == {7, 11}

RECURSIVE HashFold(_, _)
HashFold(h, s) ==
    IF Len(s) = 0 THEN h
    ELSE HashFold((h * 31 + TokCode(s[1])) % HashMod, Tail(s))

hash(seed, s) ==
    LET h == HashFold(seed, s)
    IN  IF h >= HashMod \div 2 THEN h - HashMod ELSE h

Digit == <<"0", "1", "2", "3", "4", "5", "6", "7", "8", "9">>

RECURSIVE Digits(_)
Digits(n) ==
    IF n < 10 THEN <<Digit[n + 1]>>
    ELSE Append(Digits(n \div 10), Digit[(n % 10) + 1])

\* a str that leaves out the sign
str_unsigned(n) == Digits(IF n < 0 THEN 0 - n ELSE n)

str(n) == IF n < 0 THEN <<"-">> \o Digits(0 - n) ELSE Digits(n)

(***************************************************************************)
(* State.                                                                  *)
(***************************************************************************)
VARIABLES
    CHROMADB_AVAILABLE, \* whether "import chromadb" succeeded
    hashSeed,           \* the hash key of this process
    heap,               \* the dict objects the callers hold, by reference
    chroma,             \* the in-process chromadb system behind every Client()
    mems,               \* the MemorySystem instances, in construction order
    feedbacks,          \* the FeedbackLoop instances
    systems,            \* the EvoSystem constructor calls
    ids,                \* the <<record, id>> pairs store_experience has returned
    tasks,              \* the asyncio tasks of the event loop, in creation order
    registry,           \* the CapabilityRegistry: _tools and _tool_search_index
    layer,              \* the ActionLayer, once constructed
    ret                 \* the last call and its outcome

vars == <<CHROMADB_AVAILABLE, hashSeed, heap, chroma, mems, feedbacks, systems,
          ids, tasks, registry, layer, ret>>

\* the state outside the memory subsystem and its callers
rest == <<tasks, registry, layer>>

Names == {"episodes", "feedback"}
Texts == {"search", "email"}
WorkingKeys == {"k", "last_observation", "episodic_count"}
WorkingValues == {S("v1"), None}
FactKeys == {"f", "g"}
FactValues == {S("v1"), S("v2")}
Missing == <<"missing">>

Mems == 1..Len(mems)

\* no ActionLayer constructed yet
NoLayer == [built |-> FALSE, capability_registry |-> FALSE,
            _internal_tools |-> [set |-> FALSE, items |-> <<>>]]
Objs == 1..Len(heap)

Ret(op, m, arg, status, val) ==
    [op |-> op, m |-> m, arg |-> arg, status |-> status, val |-> val]

(***************************************************************************)
(* chromadb, as the memory module uses it.  Every chromadb.Client() of a   *)
(* process is a handle on the same in-memory system, so collections are    *)
(* found by name across clients.  A Collection object names its            *)
(* collection by id; once that collection is deleted the object is stale   *)
(* and its calls raise.                                                    *)
(***************************************************************************)
CollByName(name) ==
    IF \E i \in 1..Len(chroma.colls) : chroma.colls[i].name = name
    THEN CHOOSE i \in 1..Len(chroma.colls) : chroma.colls[i].name = name
    ELSE 0

CollById(id) ==
    IF \E i \in 1..Len(chroma.colls) : chroma.colls[i].id = id
    THEN CHOOSE i \in 1..Len(chroma.colls) : chroma.colls[i].id = id
    ELSE 0

\* client.get_or_create_collection(name=...): the chroma state and the id
get_or_create_collection(name) ==
    IF CollByName(name) # 0
    THEN [chroma |-> chroma, id |-> chroma.colls[CollByName(name)].id]
    ELSE [chroma |-> [colls |-> Append(chroma.colls,
                                       [name |-> name, id |-> chroma.next, docs |-> <<>>]),
                      next |-> chroma.next + 1],
          id |-> chroma.next]

\* collection.add(documents=[doc], ids=[id], metadatas=[meta]): an id the
\* collection already holds is skipped
collection_add(c, doc, id, meta) ==
    IF \E j \in 1..Len(chroma.colls[c].docs) : chroma.colls[c].docs[j].id = id
    THEN chroma
    ELSE [chroma EXCEPT !.colls[c].docs =
              Append(@, [id |-> id, document |-> doc, metadata |-> meta])]

\* client.delete_collection(name=...) of an existing collection
delete_collection(c) ==
    [chroma EXCEPT !.colls =
        [j \in 1..(Len(chroma.colls) - 1) |->
            IF j < c THEN chroma.colls[j] ELSE chroma.colls[j + 1]]]

\* the rankings collection.query(query_texts=[q], n_results=k) can give: the
\* k nearest documents in the order of an embedding distance the model
\* leaves open
Rankings(docs, k) ==
    LET n == IF k < Len(docs) THEN k ELSE Len(docs)
    IN  {s \in [1..n -> 1..Len(docs)] : \A i, j \in 1..n : i # j => s[i] # s[j]}

(***************************************************************************)
(* Init: a process in which nothing has been constructed yet.              *)
(***************************************************************************)
Init ==
    /\ CHROMADB_AVAILABLE \in BOOLEAN
    /\ hashSeed \in Seeds
    /\ heap = <<>>
    /\ chroma = [colls |-> <<>>, next |-> 1]
    /\ mems = <<>>
    /\ feedbacks = <<>>
    /\ systems = <<>>
    /\ ids = {}
    /\ tasks = <<>>
    /\ registry = [tools |-> <<>>, index |-> <<>>]
    /\ layer = NoLayer
    /\ ret = Ret("none", 0, None, "ok", None)

(***************************************************************************)
(* The callers' dict objects.                                              *)
(***************************************************************************)
\* a caller builds a dict
NewRecord(r) ==
    /\ Len(heap) < MaxObjs
    /\ heap' = Append(heap, r)
    /\ ret' = Ret("new_record", 0, <<"obj", Len(heap) + 1>>, "ok", None)
    /\ UNCHANGED <<rest, CHROMADB_AVAILABLE, hashSeed, chroma, mems, feedbacks, systems, ids>>

\* a caller changes, in place, a dict it holds a reference to
MutateRecord(o, r) ==
    /\ heap[o] # r
    /\ heap' = [heap EXCEPT ![o] = r]
    /\ ret' = Ret("mutate_record", 0, <<"obj", o>>, "ok", None)
    /\ UNCHANGED <<rest, CHROMADB_AVAILABLE, hashSeed, chroma, mems, feedbacks, systems, ids>>

(***************************************************************************)
(* MemorySystem.__init__ with its three tiers.                             *)
(***************************************************************************)
WorkingMemory_init == [k \in WorkingKeys |-> Missing]

SemanticMemory_init == [k \in FactKeys |-> Missing]

\* an __init__ that takes the requested flag as it is
EpisodicMemory_init_as_requested(collection_name, use_chromadb) ==
    LET goc == get_or_create_collection(collection_name)
    IN  IF use_chromadb
        THEN [episodic |-> [collection_name |-> collection_name, use_chromadb |-> TRUE,
                            experiences |-> <<>>, client |-> TRUE, collection |-> goc.id],
              chroma |-> goc.chroma]
        ELSE [episodic |-> [collection_name |-> collection_name, use_chromadb |-> FALSE,
                            experiences |-> <<>>, client |-> FALSE, collection |-> 0],
              chroma |-> chroma]

\* EpisodicMemory.__init__: the new instance and the chroma state
EpisodicMemory_init(collection_name, use_chromadb) ==
    LET use == use_chromadb /\ CHROMADB_AVAILABLE
        goc == get_or_create_collection(collection_name)
    IN  IF use
        THEN [episodic |-> [collection_name |-> collection_name, use_chromadb |-> TRUE,
                            experiences |-> <<>>, client |-> TRUE, collection |-> goc.id],
              chroma |-> goc.chroma]
        ELSE [episodic |-> [collection_name |-> collection_name, use_chromadb |-> FALSE,
                            experiences |-> <<>>, client |-> FALSE, collection |-> 0],
              chroma |-> chroma]

MemorySystem_init(collection_name, use_chromadb) ==
    LET e == EpisodicMemory_init(collection_name, use_chromadb)
    IN  [mem |-> [working |-> WorkingMemory_init,
                  episodic |-> e.episodic,
                  semantic |-> SemanticMemory_init],
         chroma |-> e.chroma]

NewMemorySystem(collection_name, use_chromadb) ==
    /\ Len(mems) < MaxMems
    /\ LET n == MemorySystem_init(collection_name, use_chromadb)
       IN  /\ mems' = Append(mems, n.mem)
           /\ chroma' = n.chroma
    /\ ret' = Ret("MemorySystem", Len(mems) + 1, <<"use_chromadb", use_chromadb>>, "ok", None)
    /\ UNCHANGED <<rest, CHROMADB_AVAILABLE, hashSeed, heap, feedbacks, systems, ids>>

(***************************************************************************)
(* MemorySystem.WorkingMemory and MemorySystem.SemanticMemory.             *)
(***************************************************************************)
\* a store that keeps the value a key already has
WorkingMemory_store_keep_first(context, key, value) ==
    IF context[key] = Missing THEN [context EXCEPT ![key] = value] ELSE context

WorkingMemory_store(context, key, value) == [context EXCEPT ![key] = value]

\* dict.get(key): None for a key the dict does not hold
WorkingMemory_retrieve(context, key) ==
    IF context[key] = Missing THEN None ELSE context[key]

\* a clear that removes the caller's keys and keeps the feedback loop's
WorkingMemory_clear_keep_counters(context) ==
    [k \in WorkingKeys |->
        IF k \in {"last_observation", "episodic_count"} THEN context[k] ELSE Missing]

WorkingMemory_clear(context) == [k \in WorkingKeys |-> Missing]

\* an add_fact that keeps the value a key already has
SemanticMemory_add_fact_keep_first(knowledge, key, value) ==
    IF knowledge[key] = Missing THEN [knowledge EXCEPT ![key] = value] ELSE knowledge

SemanticMemory_add_fact(knowledge, key, value) == [knowledge EXCEPT ![key] = value]

SemanticMemory_retrieve_fact(knowledge, key) ==
    IF knowledge[key] = Missing THEN None ELSE knowledge[key]

Store(m, key, value) ==
    /\ mems' = [mems EXCEPT ![m].working = WorkingMemory_store(@, key, value)]
    /\ ret' = Ret("working.store", m, <<"key", key, value>>, "ok", None)
    /\ UNCHANGED <<rest, CHROMADB_AVAILABLE, hashSeed, heap, chroma, feedbacks, systems, ids>>

Retrieve(m, key) ==
    /\ ret' = Ret("working.retrieve", m, <<"key", key>>, "ok",
                  WorkingMemory_retrieve(mems[m].working, key))
    /\ UNCHANGED <<rest, CHROMADB_AVAILABLE, hashSeed, heap, chroma, mems, feedbacks, systems, ids>>

\* a clear of the working tier that empties the experience dictionary too
Clear_with_experiences(m) ==
    /\ mems' = [mems EXCEPT ![m].working = WorkingMemory_clear(@),
                            ![m].episodic.experiences = <<>>]
    /\ ret' = Ret("working.clear", m, None, "ok", None)
    /\ UNCHANGED <<rest, CHROMADB_AVAILABLE, hashSeed, heap, chroma, feedbacks, systems, ids>>

Clear(m) ==
    /\ mems' = [mems EXCEPT ![m].working = WorkingMemory_clear(@)]
    /\ ret' = Ret("working.clear", m, None, "ok", None)
    /\ UNCHANGED <<rest, CHROMADB_AVAILABLE, hashSeed, heap, chroma, feedbacks, systems, ids>>

AddFact(m, key, value) ==
    /\ mems' = [mems EXCEPT ![m].semantic = SemanticMemory_add_fact(@, key, value)]
    /\ ret' = Ret("semantic.add_fact", m, <<"key", key, value>>, "ok", None)
    /\ UNCHANGED <<rest, CHROMADB_AVAILABLE, hashSeed, heap, chroma, feedbacks, systems, ids>>

RetrieveFact(m, key) ==
    /\ ret' = Ret("semantic.retrieve_fact", m, <<"key", key>>, "ok",
                  SemanticMemory_retrieve_fact(mems[m].semantic, key))
    /\ UNCHANGED <<rest, CHROMADB_AVAILABLE, hashSeed, heap, chroma, mems, feedbacks, systems, ids>>

(***************************************************************************)
(* MemorySystem.EpisodicMemory.                                            *)
(***************************************************************************)
\* experience_str = json.dumps(experience, sort_keys=True)
experience_str(experience) == json_dumps(experience, TRUE)

\* experience_id = str(hash(experience_str))
experience_id(experience) == str(hash(hashSeed, experience_str(experience)))

\* an assignment that replaces the dict by one holding the new entry alone
DictSet_replace_all(experiences, id, o) == <<[id |-> id, obj |-> o]>>

\* an assignment that moves a key already held to the end of the dict
DictSet_move_to_end(experiences, id, o) ==
    Append(SelectSeq(experiences, LAMBDA e : e.id # id), [id |-> id, obj |-> o])

\* self._experiences[experience_id] = experience: a dict keeps a key it
\* already holds in its place and appends a new one
DictSet(experiences, id, o) ==
    IF \E i \in 1..Len(experiences) : experiences[i].id = id
    THEN [i \in 1..Len(experiences) |->
             IF experiences[i].id = id THEN [id |-> id, obj |-> o] ELSE experiences[i]]
    ELSE Append(experiences, [id |-> id, obj |-> o])

\* a store_experience that keeps a record it cannot serialise under the id
\* "0" on the fallback and returns that id
store_experience_lenient(m, o) ==
    [mems |-> IF mems[m].episodic.use_chromadb THEN mems
              ELSE [mems EXCEPT ![m].episodic.experiences = DictSet(@, "0", o)],
     chroma |-> chroma, status |-> "ok", val |-> <<"id", "0">>]

\* json.dumps(experience, sort_keys=True) raising TypeError out of
\* store_experience, before anything is written
store_experience_malformed(m, o) ==
    [mems |-> mems, chroma |-> chroma, status |-> "TypeError", val |-> None]

\* store_experience of the dict object o: the state it leaves and its outcome
store_experience(m, o) ==
    LET e == mems[m].episodic
        doc == experience_str(heap[o])
        id == experience_id(heap[o])
        meta == DictGet(heap[o], "timestamp", S("now"))[2]
        c == CollById(e.collection)
    IN  IF ~JsonSerializable(heap[o]) THEN store_experience_malformed(m, o)
        ELSE IF e.use_chromadb
        THEN IF c = 0
             THEN [mems |-> mems, chroma |-> chroma, status |-> "raised", val |-> None]
             ELSE [mems |-> mems, chroma |-> collection_add(c, doc, id, meta),
                   status |-> "ok", val |-> <<"id", id>>]
        ELSE [mems |-> [mems EXCEPT ![m].episodic.experiences = DictSet(@, id, o)],
              chroma |-> chroma, status |-> "ok", val |-> <<"id", id>>]

\* the slice [:k - 1] in place of [:k]
fallback_first_k_short(experiences, k) ==
    [i \in 1..(IF k - 1 < Len(experiences) THEN k - 1 ELSE Len(experiences)) |->
        <<"ref", experiences[i].obj>>]

\* the k records inserted last in place of the k inserted first
fallback_last_k(experiences, k) ==
    LET n == IF k < Len(experiences) THEN k ELSE Len(experiences)
    IN  [i \in 1..n |-> <<"ref", experiences[Len(experiences) - n + i].obj>>]

\* list(self._experiences.values())[:k], a list of references
fallback_first_k(experiences, k) ==
    [i \in 1..(IF k < Len(experiences) THEN k ELSE Len(experiences)) |->
        <<"ref", experiences[i].obj>>]

\* the outcomes retrieve_similar(query, k) can have
retrieve_similar(m, query, k) ==
    LET e == mems[m].episodic
        c == CollById(e.collection)
    IN  IF e.use_chromadb
        THEN IF c = 0 \/ k <= 0
             THEN {[status |-> "raised", val |-> None]}
             ELSE {[status |-> "ok",
                    val |-> <<"recs", [i \in 1..Len(s) |->
                               <<"new", json_loads(chroma.colls[c].docs[s[i]].document)>>]>>] :
                   s \in Rankings(chroma.colls[c].docs, k)}
        ELSE {[status |-> "ok", val |-> <<"recs", fallback_first_k(e.experiences, k)>>]}

\* a cleanup that leaves the collection in place
EpisodicMemory_cleanup_keep_collection(m) ==
    [mems |-> [mems EXCEPT ![m].episodic.experiences = <<>>],
     chroma |-> chroma, status |-> "ok"]

\* a cleanup that deletes the collection and goes on with the dictionary
EpisodicMemory_cleanup_to_fallback(m) ==
    LET c == CollByName(mems[m].episodic.collection_name)
    IN  [mems |-> [mems EXCEPT ![m].episodic.use_chromadb = FALSE,
                               ![m].episodic.experiences = <<>>],
         chroma |-> IF mems[m].episodic.use_chromadb /\ c # 0
                    THEN delete_collection(c) ELSE chroma,
         status |-> "ok"]

\* EpisodicMemory.cleanup: the state it leaves and its outcome
EpisodicMemory_cleanup(m) ==
    LET e == mems[m].episodic
        c == CollByName(e.collection_name)
    IN  IF e.use_chromadb /\ e.client
        THEN IF c = 0
             THEN [mems |-> mems, chroma |-> chroma, status |-> "raised"]
             ELSE [mems |-> mems, chroma |-> delete_collection(c), status |-> "ok"]
        ELSE [mems |-> [mems EXCEPT ![m].episodic.experiences = <<>>],
              chroma |-> chroma, status |-> "ok"]

\* a cleanup that clears the fact tier as well
MemorySystem_cleanup_with_facts(m) ==
    LET r == EpisodicMemory_cleanup(m)
    IN  [r EXCEPT !.mems = [r.mems EXCEPT ![m].semantic = SemanticMemory_init]]

\* a cleanup that clears the working tier as well
MemorySystem_cleanup_all_tiers(m) ==
    LET r == EpisodicMemory_cleanup(m)
    IN  [r EXCEPT !.mems = [r.mems EXCEPT ![m].working = WorkingMemory_clear(@)]]

\* MemorySystem.cleanup: await self.episodic.cleanup()
MemorySystem_cleanup(m) == EpisodicMemory_cleanup(m)

StoreExperience(m, o) ==
    /\ LET r == store_experience(m, o)
       IN  /\ mems' = r.mems
           /\ chroma' = r.chroma
           /\ ids' = IF r.status = "ok" THEN ids \cup {<<heap[o], r.val[2]>>} ELSE ids
           /\ ret' = Ret("store_experience", m, <<"obj", o>>, r.status, r.val)
    /\ UNCHANGED <<rest, CHROMADB_AVAILABLE, hashSeed, heap, feedbacks, systems>>

\* a retrieve_similar that takes the records it returns out of the fallback
\* dictionary
RetrieveSimilar_consuming(m, query, k) ==
    /\ \E r \in retrieve_similar(m, query, k) :
           ret' = Ret("retrieve_similar", m, <<"k", k>>, r.status, r.val)
    /\ mems' = [mems EXCEPT ![m].episodic.experiences =
                    SubSeq(@, (IF k < Len(@) THEN k ELSE Len(@)) + 1, Len(@))]
    /\ UNCHANGED <<rest, CHROMADB_AVAILABLE, hashSeed, heap, chroma, feedbacks, systems, ids>>

RetrieveSimilar(m, query, k) ==
    /\ \E r \in retrieve_similar(m, query, k) :
           ret' = Ret("retrieve_similar", m, <<"k", k>>, r.status, r.val)
    /\ UNCHANGED <<rest, CHROMADB_AVAILABLE, hashSeed, heap, chroma, mems, feedbacks, systems, ids>>

EpisodicCleanup(m) ==
    /\ LET r == EpisodicMemory_cleanup(m)
       IN  /\ mems' = r.mems
           /\ chroma' = r.chroma
           /\ ret' = Ret("episodic.cleanup", m, None, r.status, None)
    /\ UNCHANGED <<rest, CHROMADB_AVAILABLE, hashSeed, heap, feedbacks, systems, ids>>

Cleanup(m) ==
    /\ LET r == MemorySystem_cleanup(m)
       IN  /\ mems' = r.mems
           /\ chroma' = r.chroma
           /\ ret' = Ret("cleanup", m, None, r.status, None)
    /\ UNCHANGED <<rest, CHROMADB_AVAILABLE, hashSeed, heap, feedbacks, systems, ids>>

(***************************************************************************)
(* CapabilityRegistry (evo/capability/__init__.py).  _tools and            *)
(* _tool_search_index are dicts, kept as sequences of entries in insertion *)
(* order; a description is the sequence of its whitespace-separated words. *)
(***************************************************************************)
ToolNames == {"alpha", "Beta"}
BadToolName == "two words"
Descriptions == {<<>>, <<"Search">>, <<"beta", "search">>}
Queries == {"", "search", "sea", "BETA", "a", "zzz"}

\* str.lower()
Lower(w) ==
    CASE w = "Beta" -> "beta"
      [] w = "BETA" -> "beta"
      [] w = "Search" -> "search"
      [] OTHER -> w

\* q in token, for lower-case strings
IsSubstring(q, token) ==
    \/ q = token
    \/ <<q, token>> \in {<<"sea", "search">>, <<"a", "alpha">>, <<"a", "beta">>,
                          <<"a", "search">>}

\* the order of str under sorted(): by code point, capitals first
SortedNames == <<"Beta", "alpha">>

\* validate_tool_name(name)
validate_tool_name(name) == name \in ToolNames

\* list.remove(name) when name is in the list: the first occurrence goes
ListRemove(list, name) ==
    IF \E i \in 1..Len(list) : list[i] = name
    THEN LET f == CHOOSE i \in 1..Len(list) :
                     list[i] = name /\ \A j \in 1..(i - 1) : list[j] # name
         IN  [j \in 1..(Len(list) - 1) |-> IF j < f THEN list[j] ELSE list[j + 1]]
    ELSE list

\* for token_list in index.values(): if name in token_list: token_list.remove(name)
IndexRemove(index, name) ==
    [i \in 1..Len(index) |-> [index[i] EXCEPT !.names = ListRemove(@, name)]]

\* the loop over the tokens: a new token gets an empty list, the name is
\* appended to the token's list unless it is there
RECURSIVE IndexTokens(_, _, _)
IndexTokens(index, tokens, name) ==
    IF Len(tokens) = 0 THEN index
    ELSE LET token == tokens[1]
             withKey == IF \E i \in 1..Len(index) : index[i].token = token
                        THEN index
                        ELSE Append(index, [token |-> token, names |-> <<>>])
             added == [i \in 1..Len(withKey) |->
                          IF withKey[i].token = token
                             /\ ~\E j \in 1..Len(withKey[i].names) : withKey[i].names[j] = name
                          THEN [withKey[i] EXCEPT !.names = Append(@, name)]
                          ELSE withKey[i]]
         IN  IndexTokens(added, Tail(tokens), name)

\* f"{name} {description}".lower().split()
Tokenize(name, description) ==
    [i \in 1..(Len(description) + 1) |->
        IF i = 1 THEN Lower(name) ELSE Lower(description[i - 1])]

_build_tool_search_index(index, name, description) ==
    IndexTokens(IndexRemove(index, name), Tokenize(name, description), name)

\* self._tools[name] = {...}: a key already held keeps its place
ToolsSet(tools, name, description, callable) ==
    LET entry == [name |-> name, description |-> description, callable |-> callable]
    IN  IF \E i \in 1..Len(tools) : tools[i].name = name
        THEN [i \in 1..Len(tools) |-> IF tools[i].name = name THEN entry ELSE tools[i]]
        ELSE Append(tools, entry)

\* CapabilityRegistry.register_tool: the registry it leaves and its outcome
register_tool(name, description, callable) ==
    IF ~validate_tool_name(name)
    THEN [registry |-> registry, status |-> "ValueError"]
    ELSE [registry |-> [tools |-> ToolsSet(registry.tools, name, description, callable),
                        index |-> _build_tool_search_index(registry.index, name, description)],
          status |-> "ok"]

\* name in self._tools
has_tool(name) == \E i \in 1..Len(registry.tools) : registry.tools[i].name = name

\* CapabilityRegistry.get_tool: self._tools.get(name), None when not held
get_tool(name) ==
    IF has_tool(name)
    THEN registry.tools[CHOOSE i \in 1..Len(registry.tools) : registry.tools[i].name = name]
    ELSE None

\* CapabilityRegistry.list_tools: list(self._tools.keys())
list_tools == [i \in 1..Len(registry.tools) |-> registry.tools[i].name]

\* an unregister_tool that leaves the search index as it is
unregister_tool_keep_index(name) ==
    [tools |-> SelectSeq(registry.tools, LAMBDA e : e.name # name),
     index |-> registry.index]

\* CapabilityRegistry.unregister_tool
unregister_tool(name) ==
    [tools |-> SelectSeq(registry.tools, LAMBDA e : e.name # name),
     index |-> IndexRemove(registry.index, name)]

\* sorted(results) of a set of names
sorted(results) == SelectSeq(SortedNames, LAMBDA n : n \in results)

\* CapabilityRegistry.search_tools
search_tools(query) ==
    IF query = "" THEN <<>>
    ELSE LET query_lower == Lower(query)
             indexed == UNION {{registry.index[i].names[j] :
                                   j \in 1..Len(registry.index[i].names)} :
                               i \in {h \in 1..Len(registry.index) :
                                         IsSubstring(query_lower, registry.index[h].token)}}
             linear == {list_tools[i] : i \in {h \in 1..Len(list_tools) :
                                                  IsSubstring(query_lower, Lower(list_tools[h]))}}
         IN  sorted(IF indexed = {} THEN linear ELSE indexed)

RegisterTool(name, description, callable) ==
    /\ LET r == register_tool(name, description, callable)
       IN  /\ registry' = r.registry
           /\ ret' = Ret("register_tool", 0, <<"name", name>>, r.status, None)
    /\ UNCHANGED <<tasks, layer, CHROMADB_AVAILABLE, hashSeed, heap, chroma, mems, feedbacks, systems, ids>>

UnregisterTool(name) ==
    /\ registry' = unregister_tool(name)
    /\ ret' = Ret("unregister_tool", 0, <<"name", name>>, "ok", None)
    /\ UNCHANGED <<tasks, layer, CHROMADB_AVAILABLE, hashSeed, heap, chroma, mems, feedbacks, systems, ids>>

SearchTools(query) ==
    /\ ret' = Ret("search_tools", 0, <<"query", query>>, "ok", <<"names", search_tools(query)>>)
    /\ UNCHANGED <<tasks, layer, registry, CHROMADB_AVAILABLE, hashSeed, heap, chroma, mems, feedbacks, systems, ids>>

(***************************************************************************)
(* ActionLayer (evo/action/__init__.py).  A tool is a callable; what it    *)
(* does at each of its successive invocations, return or raise an          *)
(* Exception, is given with the call of execute_tool.                      *)
(***************************************************************************)
Callable == <<"callable">>

\* what a tool does at its 1st, 2nd, ... invocation
Outcomes == [1..(MaxRetries + 1) -> {"returns", "raises"}]

\* the values of the parameter max_retries: None or an int
RetryArgs == {None} \cup {<<"i", n>> : n \in 0..MaxRetries}

\* ActionLayer(capability_registry=...): the attribute _internal_tools is
\* not yet set
NewActionLayer(with_registry) ==
    /\ ~layer.built
    /\ layer' = [built |-> TRUE, capability_registry |-> with_registry,
                 _internal_tools |-> [set |-> FALSE, items |-> <<>>]]
    /\ ret' = Ret("ActionLayer", 0, <<"capability_registry", with_registry>>, "ok", None)
    /\ UNCHANGED <<tasks, registry, CHROMADB_AVAILABLE, hashSeed, heap, chroma, mems, feedbacks, systems, ids>>

\* self._internal_tools[name] = callable_func, the dict made on first use
InternalToolsSet(tools, name, callable) ==
    LET held == tools.items
    IN  [set |-> TRUE,
         items |-> IF \E i \in 1..Len(held) : held[i].name = name
                   THEN [i \in 1..Len(held) |->
                            IF held[i].name = name
                            THEN [name |-> name, callable |-> callable]
                            ELSE held[i]]
                   ELSE Append(held, [name |-> name, callable |-> callable])]

\* ActionLayer.register_tool(name, callable_func, description)
LayerRegisterTool(name, callable, description) ==
    /\ layer.built
    /\ IF layer.capability_registry
       THEN LET r == register_tool(name, description, callable)
            IN  /\ registry' = r.registry
                /\ layer' = layer
                /\ ret' = Ret("layer.register_tool", 0, <<"name", name>>, r.status, None)
       ELSE /\ layer' = [layer EXCEPT !._internal_tools = InternalToolsSet(@, name, callable)]
            /\ registry' = registry
            /\ ret' = Ret("layer.register_tool", 0, <<"name", name>>, "ok", None)
    /\ UNCHANGED <<tasks, CHROMADB_AVAILABLE, hashSeed, heap, chroma, mems, feedbacks, systems, ids>>

\* the lookup at the head of execute_tool: the callable, or None
lookup_tool(tool_name) ==
    IF layer.capability_registry
    THEN IF has_tool(tool_name) /\ get_tool(tool_name).callable # None
         THEN get_tool(tool_name).callable ELSE None
    ELSE IF layer._internal_tools.set
            /\ \E i \in 1..Len(layer._internal_tools.items) :
                   layer._internal_tools.items[i].name = tool_name
         THEN layer._internal_tools.items[CHOOSE i \in 1..Len(layer._internal_tools.items) :
                                       layer._internal_tools.items[i].name = tool_name].callable
         ELSE None

\* a loop that makes one attempt more: range(max_retries + 1), the error
\* returned at attempt == max_retries
RECURSIVE execute_tool_loop_one_more(_, _, _)
execute_tool_loop_one_more(attempt, max_retries, outcomes) ==
    IF attempt >= max_retries + 1
    THEN [val |-> <<"error", "Unknown error">>, calls |-> attempt]
    ELSE IF outcomes[attempt + 1] = "returns"
    THEN [val |-> <<"result", attempt + 1>>, calls |-> attempt + 1]
    ELSE IF attempt = max_retries
    THEN [val |-> <<"error", "failed after", max_retries>>, calls |-> attempt + 1]
    ELSE execute_tool_loop_one_more(attempt + 1, max_retries, outcomes)

\* for attempt in range(max_retries): try: return tool() / except Exception:
\* the error value at the last attempt, a sleep and the next attempt otherwise.
\* calls counts the invocations of the tool.
RECURSIVE execute_tool_loop(_, _, _)
execute_tool_loop(attempt, max_retries, outcomes) ==
    IF attempt >= max_retries
    THEN [val |-> <<"error", "Unknown error">>, calls |-> attempt]
    ELSE IF outcomes[attempt + 1] = "returns"
    THEN [val |-> <<"result", attempt + 1>>, calls |-> attempt + 1]
    ELSE IF attempt = max_retries - 1
    THEN [val |-> <<"error", "failed after", max_retries>>, calls |-> attempt + 1]
    ELSE execute_tool_loop(attempt + 1, max_retries, outcomes)

\* ActionLayer.execute_tool(tool_name, max_retries=...)
execute_tool(tool_name, max_retries, outcomes) ==
    IF lookup_tool(tool_name) = None
    THEN [val |-> <<"error", "not found", tool_name>>, calls |-> 0]
    ELSE execute_tool_loop(0,
                           IF max_retries = None \/ max_retries[2] = 0
                           THEN ACTION_MAX_RETRIES ELSE max_retries[2],
                           outcomes)

ExecuteTool(tool_name, max_retries, outcomes) ==
    /\ layer.built
    /\ LET r == execute_tool(tool_name, max_retries, outcomes)
       IN  ret' = Ret("execute_tool", 0, <<tool_name, max_retries, outcomes>>, "ok",
                      <<r.val, r.calls>>)
    /\ UNCHANGED <<tasks, registry, layer, CHROMADB_AVAILABLE, hashSeed, heap, chroma, mems, feedbacks, systems, ids>>

(***************************************************************************)
(* asyncio tasks.  A task runs its coroutine from one suspension point     *)
(* (an await that yields to the event loop) to the next; task.cancel() and *)
(* a wait_for timeout throw CancelledError into the coroutine at the       *)
(* suspension point it is waiting at, or before its first step.            *)
(***************************************************************************)
Tasks == 1..Len(tasks)

\* asyncio.create_task(memory.episodic.store_experience(experience))
CreateTask(m, o) ==
    /\ Len(tasks) < MaxTasks
    /\ tasks' = Append(tasks, [coro |-> "store_experience", m |-> m, o |-> o,
                               pc |-> "created"])
    /\ ret' = Ret("create_task", m, <<"obj", o>>, "ok", None)
    /\ UNCHANGED <<registry, layer, CHROMADB_AVAILABLE, hashSeed, heap, chroma, mems, feedbacks, systems, ids>>

\* a store_experience that awaits between adding the document under its id
\* and adding its metadata
store_experience_coro_two_phase(t) ==
    LET m == tasks[t].m
        o == tasks[t].o
        full == store_experience(m, o)
        c == CollById(mems[m].episodic.collection)
    IN  IF tasks[t].pc = "created" /\ full.status = "ok"
        THEN [mems |-> mems,
              chroma |-> IF mems[m].episodic.use_chromadb
                         THEN collection_add(c, experience_str(heap[o]),
                                             experience_id(heap[o]), "")
                         ELSE chroma,
              status |-> "ok", val |-> None, pc |-> "awaiting"]
        ELSE IF tasks[t].pc = "awaiting" /\ mems[m].episodic.use_chromadb
        THEN [mems |-> mems,
              chroma |-> [chroma EXCEPT !.colls[c].docs =
                            [j \in 1..Len(@) |->
                                IF @[j].id = experience_id(heap[o])
                                THEN [@[j] EXCEPT !.metadata =
                                         DictGet(heap[o], "timestamp", S("now"))[2]]
                                ELSE @[j]]],
              status |-> "ok", val |-> full.val, pc |-> "done"]
        ELSE [mems |-> full.mems, chroma |-> full.chroma, status |-> full.status,
              val |-> full.val, pc |-> "done"]

\* one step of the coroutine store_experience: its body holds no await, so
\* the first step runs it to its return or to the exception it raises
store_experience_coro(t) ==
    LET full == store_experience(tasks[t].m, tasks[t].o)
    IN  [mems |-> full.mems, chroma |-> full.chroma, status |-> full.status,
         val |-> full.val, pc |-> "done"]

\* the event loop runs a task that is ready up to its next suspension point
RunTask(t) ==
    /\ tasks[t].pc \in {"created", "awaiting"}
    /\ LET r == store_experience_coro(t)
       IN  /\ mems' = r.mems
           /\ chroma' = r.chroma
           /\ ids' = IF r.pc = "done" /\ r.status = "ok"
                     THEN ids \cup {<<heap[tasks[t].o], r.val[2]>>} ELSE ids
           /\ tasks' = [tasks EXCEPT ![t].pc = r.pc]
           /\ ret' = Ret("store_experience", tasks[t].m, <<"obj", tasks[t].o>>,
                         r.status, r.val)
    /\ UNCHANGED <<registry, layer, CHROMADB_AVAILABLE, hashSeed, heap, feedbacks, systems>>

\* task.cancel(), or the timeout of asyncio.wait_for: a task that has not
\* finished gets CancelledError at its suspension point and runs no further;
\* a finished task is left as it is
CancelTask(t) ==
    /\ tasks' = [tasks EXCEPT ![t].pc =
                    IF @ \in {"created", "awaiting"} THEN "cancelled" ELSE @]
    /\ ret' = Ret("cancel", tasks[t].m, <<"task", t>>,
                  IF tasks[t].pc \in {"created", "awaiting"} THEN "cancelled" ELSE "ok",
                  None)
    /\ UNCHANGED <<registry, layer, CHROMADB_AVAILABLE, hashSeed, heap, chroma, mems, feedbacks, systems, ids>>

(***************************************************************************)
(* FeedbackLoop.                                                           *)
(***************************************************************************)
\* the keyword parameters FeedbackLoop.__init__ declares
FeedbackLoop_init_params == {}

\* FeedbackLoop(): self._memory = MemorySystem(collection_name="feedback")
NewFeedbackLoop ==
    /\ Len(feedbacks) < MaxLoops
    /\ Len(mems) < MaxMems
    /\ LET n == MemorySystem_init("feedback", TRUE)
       IN  /\ mems' = Append(mems, n.mem)
           /\ chroma' = n.chroma
    /\ feedbacks' = Append(feedbacks, [memory |-> Len(mems) + 1])
    /\ ret' = Ret("FeedbackLoop", Len(mems) + 1, None, "ok", None)
    /\ UNCHANGED <<rest, CHROMADB_AVAILABLE, hashSeed, heap, systems, ids>>

\* FeedbackLoop(memory=m): a keyword __init__ does not declare raises
\* TypeError and no loop is built
InjectFeedbackLoop(memory) ==
    /\ Len(feedbacks) < MaxLoops
    /\ LET accepted == {"memory"} \subseteq FeedbackLoop_init_params
       IN  /\ feedbacks' = IF accepted THEN Append(feedbacks, [memory |-> memory])
                                       ELSE feedbacks
           /\ ret' = Ret("FeedbackLoop(memory)", memory, None,
                         IF accepted THEN "ok" ELSE "TypeError", None)
    /\ UNCHANGED <<rest, CHROMADB_AVAILABLE, hashSeed, heap, chroma, mems, systems, ids>>

\* "x or 0"
OrZero(v) == IF v = None \/ v = <<"i", 0>> THEN 0 ELSE v[2]

\* store_observation: the working memory it leaves
store_observation(working, o) ==
    LET w1 == WorkingMemory_store(working, "last_observation", <<"ref", o>>)
        current_count == OrZero(WorkingMemory_retrieve(w1, "episodic_count"))
    IN  WorkingMemory_store(w1, "episodic_count", <<"i", current_count + 1>>)

StoreObservation(f, o) ==
    /\ OrZero(WorkingMemory_retrieve(mems[feedbacks[f].memory].working, "episodic_count"))
           < MaxCount
    /\ mems' = [mems EXCEPT ![feedbacks[f].memory].working = store_observation(@, o)]
    /\ ret' = Ret("store_observation", feedbacks[f].memory, <<"obj", o>>, "ok", None)
    /\ UNCHANGED <<rest, CHROMADB_AVAILABLE, hashSeed, heap, chroma, feedbacks, systems, ids>>

(***************************************************************************)
(* EvoSystem.__init__(memory): memory 0 stands for None.  A call that      *)
(* passes a keyword the callee does not declare raises TypeError, and the  *)
(* constructor stops there.                                                *)
(***************************************************************************)
NewEvoSystem(memory) ==
    /\ Len(systems) < MaxSystems
    /\ memory = 0 => Len(mems) < MaxMems
    /\ LET n == MemorySystem_init("episodes", TRUE)
           m == IF memory = 0 THEN Len(mems) + 1 ELSE memory
           accepted == {"memory"} \subseteq FeedbackLoop_init_params
       IN  /\ mems' = IF memory = 0 THEN Append(mems, n.mem) ELSE mems
           /\ chroma' = IF memory = 0 THEN n.chroma ELSE chroma
           /\ feedbacks' = IF accepted THEN Append(feedbacks, [memory |-> m]) ELSE feedbacks
           /\ systems' = Append(systems,
                  [memory |-> m, action_memory |-> m,
                   feedback |-> IF accepted THEN Len(feedbacks) + 1 ELSE 0,
                   status |-> IF accepted THEN "ok" ELSE "TypeError"])
           /\ ret' = Ret("EvoSystem", m, None,
                         IF accepted THEN "ok" ELSE "TypeError", None)
    /\ UNCHANGED <<rest, CHROMADB_AVAILABLE, hashSeed, heap, ids>>

(***************************************************************************)
(* The specifications.                                                     *)
(***************************************************************************)
\* the values of k: the small ones and the default
Ks == (0..MaxK) \cup {DefaultK}

\* One ExperienceStore, the dicts its callers build, and every call on it.
Next ==
    \/ \E r \in Records : NewRecord(r)
    \/ \E u \in BOOLEAN : mems = <<>> /\ NewMemorySystem("episodes", u)
    \/ \E m \in Mems, o \in Objs : StoreExperience(m, o)
    \/ \E m \in Mems, q \in Texts, k \in Ks : RetrieveSimilar(m, q, k)
    \/ \E m \in Mems : EpisodicCleanup(m)
    \/ \E m \in Mems : Cleanup(m)

Spec == Init /\ [][Next]_vars

\* One ExperienceStore whose callers also change, in place, the dicts they
\* hold.
NextAlias ==
    \/ \E r \in Records : NewRecord(r)
    \/ \E o \in Objs, r \in Records : MutateRecord(o, r)
    \/ \E u \in BOOLEAN : mems = <<>> /\ NewMemorySystem("episodes", u)
    \/ \E m \in Mems, o \in Objs : StoreExperience(m, o)
    \/ \E m \in Mems, q \in Texts, k \in 0..MaxK : RetrieveSimilar(m, q, k)
    \/ \E m \in Mems : Cleanup(m)

SpecAlias == Init /\ [][NextAlias]_vars

\* ExperienceStores constructed side by side, on the same or on different
\* collection names, storing one dict.
NextShared ==
    \/ heap = <<>> /\ NewRecord(RSearch)
    \/ \E n \in Names, u \in BOOLEAN : NewMemorySystem(n, u)
    \/ \E m \in Mems, o \in Objs : StoreExperience(m, o)
    \/ \E m \in Mems, q \in Texts, k \in 0..MaxK : RetrieveSimilar(m, q, k)
    \/ \E m \in Mems : EpisodicCleanup(m)

SpecShared == Init /\ [][NextShared]_vars

\* One facade, owned by a FeedbackLoop, with its three tiers.
NextFacade ==
    \/ heap = <<>> /\ NewRecord(RSearch)
    \/ mems = <<>> /\ NewFeedbackLoop
    \/ \E m \in Mems, v \in WorkingValues : Store(m, "k", v)
    \/ \E m \in Mems, k \in WorkingKeys : Retrieve(m, k)
    \/ \E m \in Mems : Clear(m)
    \/ \E m \in Mems, k \in FactKeys, v \in FactValues : AddFact(m, k, v)
    \/ \E m \in Mems, k \in FactKeys : RetrieveFact(m, k)
    \/ \E m \in Mems, o \in Objs : StoreExperience(m, o)
    \/ \E m \in Mems, q \in Texts, k \in 0..MaxK : RetrieveSimilar(m, q, k)
    \/ \E m \in Mems : Cleanup(m)
    \/ \E f \in 1..Len(feedbacks), o \in Objs : StoreObservation(f, o)

SpecFacade == Init /\ [][NextFacade]_vars

\* One facade holding a working value and a fact, the dicts its callers
\* build, and the stores and queries of experiences on it.
NextFrame ==
    \/ \E r \in {RSearch, RCtxA} : NewRecord(r)
    \/ \E u \in BOOLEAN : mems = <<>> /\ NewMemorySystem("episodes", u)
    \/ \E m \in Mems : Store(m, "k", S("v1"))
    \/ \E m \in Mems : AddFact(m, "f", S("v1"))
    \/ \E m \in Mems, o \in Objs : StoreExperience(m, o)
    \/ \E m \in Mems, q \in Texts, k \in Ks : RetrieveSimilar(m, q, k)

SpecFrame == Init /\ [][NextFrame]_vars

\* One ExperienceStore offered well-formed and malformed records.
NextMalformed ==
    \/ \E r \in {RSearch, RCtxA, RMalformed} : NewRecord(r)
    \/ \E u \in BOOLEAN : mems = <<>> /\ NewMemorySystem("episodes", u)
    \/ \E m \in Mems, o \in Objs : StoreExperience(m, o)
    \/ \E m \in Mems, q \in Texts, k \in Ks : RetrieveSimilar(m, q, k)

SpecMalformed == Init /\ [][NextMalformed]_vars

\* One ExperienceStore written by tasks that the event loop runs and that
\* their creator may cancel.
NextCancel ==
    \/ heap = <<>> /\ NewRecord(RSearch)
    \/ Len(heap) = 1 /\ NewRecord(RCtxA)
    \/ \E u \in BOOLEAN : mems = <<>> /\ NewMemorySystem("episodes", u)
    \/ \E m \in Mems, o \in Objs : CreateTask(m, o)
    \/ \E t \in Tasks : RunTask(t)
    \/ \E t \in Tasks : CancelTask(t)
    \/ \E m \in Mems : RetrieveSimilar(m, "search", DefaultK)

SpecCancel == Init /\ [][NextCancel]_vars

\* One ExperienceStore offered records of different content.
NextIds ==
    \/ \E r \in IdRecords : NewRecord(r)
    \/ \E u \in BOOLEAN : mems = <<>> /\ NewMemorySystem("episodes", u)
    \/ \E m \in Mems, o \in Objs : StoreExperience(m, o)
    \/ \E m \in Mems : RetrieveSimilar(m, "search", DefaultK)

SpecIds == Init /\ [][NextIds]_vars

\* One ActionLayer, with or without a CapabilityRegistry, the tools
\* registered on it and the calls of execute_tool.
NextAction ==
    \/ \E b \in BOOLEAN : NewActionLayer(b)
    \/ \E n \in ToolNames \cup {BadToolName}, c \in {Callable, None} :
          LayerRegisterTool(n, c, <<>>)
    \/ \E n \in ToolNames, N \in RetryArgs, outs \in Outcomes :
          ExecuteTool(n, N, outs)

\* the memory subsystem plays no part: one process, chromadb installed
InitAction == Init /\ CHROMADB_AVAILABLE /\ hashSeed = 7

SpecAction == InitAction /\ [][NextAction]_vars

\* One ExperienceStore offered the same content again, in the same and in
\* another key order, and different contents, between cleanups.
DedupRecords == {RSearch, REmailN, RCtxA, RCtxB}

NextDedup ==
    \/ \E r \in DedupRecords : NewRecord(r)
    \/ \E u \in BOOLEAN : mems = <<>> /\ NewMemorySystem("episodes", u)
    \/ \E m \in Mems, o \in Objs : StoreExperience(m, o)
    \/ \E m \in Mems : RetrieveSimilar(m, "search", DefaultK)
    \/ \E m \in Mems : EpisodicCleanup(m)

SpecDedup == Init /\ [][NextDedup]_vars

\* Facades, FeedbackLoops and EvoSystems constructed side by side.
NextSystems ==
    \/ heap = <<>> /\ NewRecord(RSearch)
    \/ \E n \in Names, u \in BOOLEAN : NewMemorySystem(n, u)
    \/ NewFeedbackLoop
    \/ \E a \in {0} \cup Mems : NewEvoSystem(a)
    \/ \E a \in Mems : InjectFeedbackLoop(a)
    \/ \E m \in Mems : Store(m, "k", S("v1"))
    \/ \E m \in Mems, k \in WorkingKeys : Retrieve(m, k)
    \/ \E f \in 1..Len(feedbacks), o \in Objs : StoreObservation(f, o)

SpecSystems == Init /\ [][NextSystems]_vars

\* One ExperienceStore and callers that hold the three dicts of a scenario.
InitScenario ==
    /\ CHROMADB_AVAILABLE \in BOOLEAN
    /\ hashSeed \in Seeds
    /\ heap \in Scenarios
    /\ chroma = [colls |-> <<>>, next |-> 1]
    /\ mems = <<>>
    /\ feedbacks = <<>>
    /\ systems = <<>>
    /\ ids = {}
    /\ tasks = <<>>
    /\ registry = [tools |-> <<>>, index |-> <<>>]
    /\ layer = NoLayer
    /\ ret = Ret("none", 0, None, "ok", None)

NextScenario ==
    \/ \E u \in BOOLEAN : mems = <<>> /\ NewMemorySystem("episodes", u)
    \/ \E m \in Mems, o \in Objs : StoreExperience(m, o)
    \/ \E m \in Mems, q \in Texts : RetrieveSimilar(m, q, DefaultK)

SpecScenario == InitScenario /\ [][NextScenario]_vars

(***************************************************************************)
(* What the callers can observe.                                           *)
(***************************************************************************)
CleanupOps == {"cleanup", "episodic.cleanup"}

\* the dict a returned handle denotes: a reference into the heap, or a dict
\* json.loads has just built
Deref(h) == IF h[1] = "ref" THEN heap[h[2]] ELSE h[2]

\* the outcomes of retrieve_similar(q, k) on m, by the contents of the
\* returned dicts
Returned(m, q, k) ==
    {[status |-> x.status,
      recs |-> IF x.status = "ok"
               THEN [i \in 1..Len(x.val[2]) |-> Deref(x.val[2][i])]
               ELSE <<>>] : x \in retrieve_similar(m, q, k)}

\* the same on the instance of the last call
ReturnedLast(q, k) == Returned(ret.m, q, k)

\* the contents of the dicts the last retrieve_similar returned
RetRecs == [i \in 1..Len(ret.val[2]) |-> Deref(ret.val[2][i])]

(***************************************************************************)
(* C1.  Identity determinism: records with the same key/value content at   *)
(* every nesting level get the same id from store_experience, whatever the *)
(* insertion order of their keys, and a record stored again, before or     *)
(* after other stores, gets the id it got the first time.                  *)
(***************************************************************************)
C1_IdentityDeterminism ==
    \A p, q \in ids : DictEq(p[1], q[1]) => p[2] = q[2]

\* two records with the same content, at both nesting levels, and different
\* key orders have been stored
C1_Witness ==
    /\ ret.op = "store_experience"
    /\ ret.status = "ok"
    /\ \E p, q \in ids : p[1] # q[1] /\ DictEq(p[1], q[1])

(***************************************************************************)
(* C2.  Round trip as claimed: on the fallback backend, store_experience   *)
(* of r followed by retrieve_similar with any k >= 1 returns a sequence    *)
(* holding a record equal to r, whatever number of records is stored.      *)
(***************************************************************************)
C2_RoundTripAnyK ==
    [][(/\ ret.op = "store_experience"
        /\ ret.status = "ok"
        /\ ~mems[ret.m].episodic.use_chromadb
        /\ ret'.op = "retrieve_similar"
        /\ ret'.m = ret.m
        /\ ret'.arg[2] >= 1)
       => /\ ret'.status = "ok"
          /\ \E i \in 1..Len(RetRecs') : DictEq(RetRecs'[i], heap[ret.arg[2]])]_vars

(***************************************************************************)
(* C2 amended.  Round trip on the fallback backend: store_experience of r  *)
(* followed by retrieve_similar with a k that is at least the number of    *)
(* records the store holds returns a sequence holding a record equal to r. *)
(***************************************************************************)
C2_RoundTripLargeK ==
    [][(/\ ret.op = "store_experience"
        /\ ret.status = "ok"
        /\ ~mems[ret.m].episodic.use_chromadb
        /\ ret'.op = "retrieve_similar"
        /\ ret'.m = ret.m
        /\ ret'.arg[2] >= Len(mems[ret.m].episodic.experiences))
       => /\ ret'.status = "ok"
          /\ \E i \in 1..Len(RetRecs') : DictEq(RetRecs'[i], heap[ret.arg[2]])]_vars

\* a fallback store holding two records has answered a retrieve_similar
\* with k = 2 by both of them
C2_Witness ==
    /\ ret.op = "retrieve_similar"
    /\ ret.status = "ok"
    /\ ~mems[ret.m].episodic.use_chromadb
    /\ Len(mems[ret.m].episodic.experiences) = 2
    /\ ret.arg[2] = 2
    /\ Len(RetRecs) = 2
    /\ ~DictEq(RetRecs[1], RetRecs[2])

(***************************************************************************)
(* C3.  Reuse after cleanup: on either backend, cleanup() then             *)
(* store_experience(r) then retrieve_similar(any text, k=1) completes      *)
(* without error and returns exactly one record, equal to r.               *)
(***************************************************************************)
C3_ReuseAfterCleanup ==
    [][(/\ ret.op \in CleanupOps
        /\ ret.status = "ok"
        /\ ret'.op = "store_experience"
        /\ ret'.m = ret.m)
       => /\ ret'.status = "ok"
          /\ \A q \in Texts :
                Returned(ret.m, q, 1)' =
                    {[status |-> "ok", recs |-> <<heap[ret'.arg[2]]>>]}]_vars

(***************************************************************************)
(* C4.  Records are immutable once stored: when a caller mutates a dict it *)
(* passed to store_experience or got from retrieve_similar, what every     *)
(* later retrieve_similar returns is unchanged.                            *)
(***************************************************************************)
C4_StoredRecordsImmutable ==
    [][ret'.op = "mutate_record"
       => \A m \in Mems, q \in Texts, k \in 0..MaxK :
             Returned(m, q, k)' = Returned(m, q, k)]_vars

(***************************************************************************)
(* C5.  Asymmetric facade cleanup: MemorySystem.cleanup() leaves the       *)
(* working store and the fact store as they were, so that retrieve(k) and  *)
(* retrieve_fact(k) give, for every key, the value they gave before it,    *)
(* the feedback loop's last_observation and episodic_count included.       *)
(***************************************************************************)
C5_CleanupKeepsWorkingAndFacts ==
    [][ret'.op = "cleanup"
       => /\ mems'[ret'.m].working = mems[ret'.m].working
          /\ mems'[ret'.m].semantic = mems[ret'.m].semantic
          /\ heap' = heap
          /\ \A k \in WorkingKeys :
                WorkingMemory_retrieve(mems'[ret'.m].working, k) =
                    WorkingMemory_retrieve(mems[ret'.m].working, k)
          /\ \A k \in FactKeys :
                SemanticMemory_retrieve_fact(mems'[ret'.m].semantic, k) =
                    SemanticMemory_retrieve_fact(mems[ret'.m].semantic, k)]_vars

\* a facade holding a working value, an observation with its count and a fact
\* has been cleaned up
C5_Witness ==
    /\ ret.op = "cleanup"
    /\ ret.status = "ok"
    /\ WorkingMemory_retrieve(mems[ret.m].working, "k") = S("v1")
    /\ WorkingMemory_retrieve(mems[ret.m].working, "last_observation") = <<"ref", 1>>
    /\ WorkingMemory_retrieve(mems[ret.m].working, "episodic_count") = <<"i", 1>>
    /\ SemanticMemory_retrieve_fact(mems[ret.m].semantic, "f") = S("v2")

(***************************************************************************)
(* C6.  Independent instances: an operation that writes through one        *)
(* MemorySystem instance, store_experience and cleanup included, changes   *)
(* no result of retrieve, retrieve_fact or retrieve_similar on another     *)
(* instance, also when both were built for the same collection name with   *)
(* the indexed backend.                                                    *)
(***************************************************************************)
WriteOps == {"working.store", "working.clear", "semantic.add_fact",
             "store_experience", "cleanup", "episodic.cleanup"}

C6_IndependentInstances ==
    [][ret'.op \in WriteOps
       => \A b \in Mems \ {ret'.m} :
             /\ \A q \in Texts, k \in 0..MaxK : Returned(b, q, k)' = Returned(b, q, k)
             /\ \A k \in WorkingKeys :
                   WorkingMemory_retrieve(mems'[b].working, k) =
                       WorkingMemory_retrieve(mems[b].working, k)
             /\ \A k \in FactKeys :
                   SemanticMemory_retrieve_fact(mems'[b].semantic, k) =
                       SemanticMemory_retrieve_fact(mems[b].semantic, k)]_vars

(***************************************************************************)
(* C7.  Shared-reference injection: every EvoSystem(memory=m) call, and    *)
(* every EvoSystem() call, yields a system whose memory, whose action      *)
(* layer's memory and whose feedback loop's _memory are one instance.      *)
(***************************************************************************)
C7_SharedReferenceInjection ==
    \A s \in 1..Len(systems) :
        /\ systems[s].status = "ok"
        /\ systems[s].action_memory = systems[s].memory
        /\ systems[s].feedback \in 1..Len(feedbacks)
        /\ feedbacks[systems[s].feedback].memory = systems[s].memory

(***************************************************************************)
(* C8.  After a cleanup of the ExperienceStore, directly or through        *)
(* MemorySystem.cleanup(), the store holds no record: retrieve_similar     *)
(* returns an empty sequence for every query text and every k >= 1.        *)
(***************************************************************************)
C8_EmptyAfterCleanup ==
    [][(ret'.op \in CleanupOps /\ ret'.status = "ok")
       => \A q \in Texts, k \in 1..MaxK :
             ReturnedLast(q, k)' = {[status |-> "ok", recs |-> <<>>]}]_vars

(***************************************************************************)
(* C9.  Teardown does not poison the namespace: right after the cleanup of *)
(* an ExperienceStore built for a collection name, a new ExperienceStore   *)
(* is constructed for that name and backend variant without error, and it  *)
(* starts empty: its retrieve_similar returns no record.                   *)
(***************************************************************************)
C9_FreshInstanceAfterTeardown ==
    [][(/\ ret.op \in CleanupOps
        /\ ret.status = "ok"
        /\ ret'.op = "MemorySystem"
        /\ mems'[ret'.m].episodic.collection_name = mems[ret.m].episodic.collection_name
        /\ mems'[ret'.m].episodic.use_chromadb = mems[ret.m].episodic.use_chromadb)
       => /\ ret'.status = "ok"
          /\ \A q \in Texts, k \in 1..MaxK :
                ReturnedLast(q, k)' = {[status |-> "ok", recs |-> <<>>]}]_vars

\* an indexed store has been constructed for the name of an earlier indexed
\* store whose collection, once holding a record, is deleted
C9_Witness ==
    /\ ret.op = "MemorySystem"
    /\ ids # {}
    /\ mems[ret.m].episodic.use_chromadb
    /\ \E j \in 1..(ret.m - 1) :
          /\ mems[j].episodic.use_chromadb
          /\ mems[j].episodic.collection_name = mems[ret.m].episodic.collection_name
          /\ CollById(mems[j].episodic.collection) = 0
    /\ chroma.colls[CollById(mems[ret.m].episodic.collection)].docs = <<>>

(***************************************************************************)
(* C10.  Repeated cleanup is safe: a cleanup that directly follows a       *)
(* cleanup of the same store, on either backend variant, does not raise    *)
(* and leaves the state the first one left.                                *)
(***************************************************************************)
C10_RepeatedCleanup ==
    [][(/\ ret.op \in CleanupOps
        /\ ret.status = "ok"
        /\ ret'.op \in CleanupOps
        /\ ret'.m = ret.m)
       => /\ ret'.status = "ok"
          /\ mems' = mems
          /\ chroma' = chroma]_vars

(***************************************************************************)
(* C11.  FactStore last-write-wins: a fact store is constructed with every *)
(* key absent; add_fact(k, v) makes retrieve_fact(k) give v and no other   *)
(* call changes what retrieve_fact gives, so retrieve_fact(k) always gives *)
(* the value of the latest add_fact(k, .), and None, without raising, for  *)
(* a key never added.                                                      *)
(***************************************************************************)
C11_FactLastWriteWins ==
    [][/\ \A m \in 1..Len(mems'), k \in FactKeys :
             SemanticMemory_retrieve_fact(mems'[m].semantic, k) =
                 IF ret'.op = "semantic.add_fact" /\ ret'.m = m /\ ret'.arg[2] = k
                 THEN ret'.arg[3]
                 ELSE IF m \in Mems
                      THEN SemanticMemory_retrieve_fact(mems[m].semantic, k)
                      ELSE None
       /\ ret'.op = "semantic.retrieve_fact"
             => /\ ret'.status = "ok"
                /\ ret'.val = SemanticMemory_retrieve_fact(mems[ret'.m].semantic,
                                                           ret'.arg[2])]_vars

\* retrieve_fact has returned the value of an add_fact while another key was
\* never added
C11_Witness ==
    /\ ret.op = "semantic.retrieve_fact"
    /\ ret.arg[2] = "f"
    /\ ret.val = S("v2")
    /\ SemanticMemory_retrieve_fact(mems[ret.m].semantic, "g") = None

(***************************************************************************)
(* C12.  Facts are never automatically removed: once retrieve_fact(k)      *)
(* gives a value on a facade, no later call on that facade (store, clear,  *)
(* store_experience, retrieve_similar, cleanup, add_fact) makes it give    *)
(* the absent value again.                                                 *)
(***************************************************************************)
C12_FactsNeverRemoved ==
    [][\A m \in Mems, k \in FactKeys :
          SemanticMemory_retrieve_fact(mems[m].semantic, k) # None
             => SemanticMemory_retrieve_fact(mems'[m].semantic, k) # None]_vars

\* a facade holding a fact has been cleaned up after its working store was
\* emptied, and the fact is there
C12_Witness ==
    /\ ret.op = "cleanup"
    /\ ret.status = "ok"
    /\ mems[ret.m].working = WorkingMemory_init
    /\ ids # {}
    /\ SemanticMemory_retrieve_fact(mems[ret.m].semantic, "f") = S("v1")
    /\ SemanticMemory_retrieve_fact(mems[ret.m].semantic, "g") = S("v2")

(***************************************************************************)
(* C13.  WorkingStore read-your-writes: a working store is constructed     *)
(* with every key absent; store(k, v) makes retrieve(k) give v, clear      *)
(* makes every key absent, and no other call changes what retrieve gives   *)
(* (store_observation writes its own two keys only), so retrieve(k) gives  *)
(* the value of the latest store(k, .) since the last clear, and None,     *)
(* without raising, when there is none.                                    *)
(***************************************************************************)
ObservationKeys == {"last_observation", "episodic_count"}

C13_WorkingReadYourWrites ==
    [][/\ \A m \in 1..Len(mems'), k \in WorkingKeys :
             (ret'.op = "store_observation" /\ ret'.m = m /\ k \in ObservationKeys)
             \/ WorkingMemory_retrieve(mems'[m].working, k) =
                   IF ret'.op = "working.store" /\ ret'.m = m /\ ret'.arg[2] = k
                   THEN ret'.arg[3]
                   ELSE IF ret'.op = "working.clear" /\ ret'.m = m
                        THEN None
                        ELSE IF m \in Mems
                             THEN WorkingMemory_retrieve(mems[m].working, k)
                             ELSE None
       /\ ret'.op = "working.retrieve"
             => /\ ret'.status = "ok"
                /\ ret'.val = WorkingMemory_retrieve(mems[ret'.m].working, ret'.arg[2])]_vars

\* retrieve has returned the value of a store while a key of the same store
\* is absent
C13_Witness ==
    /\ ret.op = "working.retrieve"
    /\ ret.arg[2] = "k"
    /\ ret.val = S("v1")
    /\ WorkingMemory_retrieve(mems[ret.m].working, "last_observation") = None

(***************************************************************************)
(* C14.  WorkingStore.clear() empties the store and is idempotent: after   *)
(* clear the store is the one a constructor makes, retrieve gives the      *)
(* absent value for every key, and a clear that directly follows a clear   *)
(* changes nothing.                                                        *)
(***************************************************************************)
C14_ClearEmptiesAndIdempotent ==
    [][ret'.op = "working.clear"
       => /\ ret'.status = "ok"
          /\ mems'[ret'.m].working = WorkingMemory_init
          /\ \A k \in WorkingKeys :
                WorkingMemory_retrieve(mems'[ret'.m].working, k) = None
          /\ (ret.op = "working.clear" /\ ret.m = ret'.m) => mems' = mems]_vars

\* the working store of a facade that holds a fact and has stored an
\* experience has been cleared
C14_Witness ==
    /\ ret.op = "working.clear"
    /\ ret.status = "ok"
    /\ \A k \in WorkingKeys : WorkingMemory_retrieve(mems[ret.m].working, k) = None
    /\ SemanticMemory_retrieve_fact(mems[ret.m].semantic, "f") = S("v1")
    /\ ids # {}

(***************************************************************************)
(* C15.  Fallback at construction: when use_chromadb is False, or is True  *)
(* while chromadb cannot be imported, the constructor does not fail and    *)
(* yields the fallback variant (client None, an empty dictionary), and on  *)
(* a fallback store store_experience, retrieve_similar and cleanup         *)
(* complete without raising, store_experience putting the record into the  *)
(* dictionary.                                                             *)
(***************************************************************************)
EpisodicOps == {"store_experience", "retrieve_similar", "cleanup", "episodic.cleanup"}

C15_FallbackAtConstruction ==
    [][/\ ret'.op = "MemorySystem"
             => /\ ret'.status = "ok"
                /\ (~ret'.arg[2] \/ ~CHROMADB_AVAILABLE)
                      => /\ ~mems'[ret'.m].episodic.use_chromadb
                         /\ ~mems'[ret'.m].episodic.client
                         /\ mems'[ret'.m].episodic.collection = 0
                         /\ mems'[ret'.m].episodic.experiences = <<>>
       /\ (ret'.op \in EpisodicOps /\ ~mems[ret'.m].episodic.use_chromadb)
             => /\ ret'.status = "ok"
                /\ ret'.op = "store_experience"
                      => \E i \in 1..Len(mems'[ret'.m].episodic.experiences) :
                            mems'[ret'.m].episodic.experiences[i].obj = ret'.arg[2]]_vars

\* the indexed backend was requested without chromadb and the store built is
\* the fallback
C15_Witness ==
    /\ ret.op = "MemorySystem"
    /\ ret.arg[2]
    /\ ~CHROMADB_AVAILABLE
    /\ ~mems[ret.m].episodic.use_chromadb
    /\ ~mems[ret.m].episodic.client

(***************************************************************************)
(* C16.  Scenario as claimed: once the three experiences, with actions     *)
(* search, search and email, are stored on a fresh fallback store,         *)
(* retrieve_similar("search", k=5) returns at least two records whose      *)
(* action is search, also when the two search records have the same        *)
(* content.                                                                *)
(***************************************************************************)
AllStored == \A o \in Objs : <<heap[o], experience_id(heap[o])>> \in ids

SearchCount(recs) ==
    Cardinality({i \in 1..Len(recs) : DictGet(recs[i], "action", None) = S("search")})

C16_ScenarioAnyContent ==
    [][(/\ ret'.op = "retrieve_similar"
        /\ ~mems[ret'.m].episodic.use_chromadb
        /\ ret'.arg[2] = DefaultK
        /\ AllStored)
       => ret'.status = "ok" /\ SearchCount(RetRecs') >= 2]_vars

(***************************************************************************)
(* C16 amended.  The scenario with two search records of different         *)
(* content: retrieve_similar("search", k=5) on the fallback store returns  *)
(* at least the two search records.                                        *)
(***************************************************************************)
C16_ScenarioDistinctContent ==
    [][(/\ ret'.op = "retrieve_similar"
        /\ ~mems[ret'.m].episodic.use_chromadb
        /\ ret'.arg[2] = DefaultK
        /\ AllStored
        /\ ~DictEq(heap[1], heap[2]))
       => /\ ret'.status = "ok"
          /\ SearchCount(RetRecs') >= 2
          /\ \A o \in {1, 2} : \E i \in 1..Len(RetRecs') : DictEq(RetRecs'[i], heap[o])]_vars

\* the three records, the search records different, are stored on a fallback
\* store and retrieve_similar with k = 5 has returned all three
C16_Witness ==
    /\ ret.op = "retrieve_similar"
    /\ ret.status = "ok"
    /\ ~mems[ret.m].episodic.use_chromadb
    /\ ret.arg[2] = DefaultK
    /\ AllStored
    /\ ~DictEq(heap[1], heap[2])
    /\ Len(RetRecs) = 3

(***************************************************************************)
(* C17.  The feedback processor stores every observation as an experience: *)
(* after store_observation(obs) the episodic store of the loop's facade    *)
(* holds obs.                                                              *)
(***************************************************************************)
\* the episodic store of m holds a record equal to the dict object o
Holds(m, o) ==
    LET e == mems[m].episodic
        c == CollById(e.collection)
    IN  IF e.use_chromadb
        THEN /\ c # 0
             /\ \E j \in 1..Len(chroma.colls[c].docs) :
                   DictEq(json_loads(chroma.colls[c].docs[j].document), heap[o])
        ELSE \E i \in 1..Len(e.experiences) : DictEq(heap[e.experiences[i].obj], heap[o])

HoldsLast == Holds(ret.m, ret.arg[2])

C17_ObservationStoredAsExperience ==
    [][ret'.op = "store_observation" => HoldsLast']_vars

(***************************************************************************)
(* C18.  A FeedbackLoop constructed with an injected facade writes into    *)
(* it: FeedbackLoop(memory=m) yields a loop whose _memory is m, and each   *)
(* store_observation through a loop adds one to its facade's               *)
(* episodic_count and makes last_observation the observation passed.       *)
(***************************************************************************)
C18_InjectedFeedbackMemory ==
    [][/\ ret'.op = "FeedbackLoop(memory)"
             => /\ ret'.status = "ok"
                /\ feedbacks' # feedbacks
                /\ feedbacks'[Len(feedbacks')].memory = ret'.m
       /\ ret'.op = "store_observation"
             => /\ WorkingMemory_retrieve(mems'[ret'.m].working, "episodic_count") =
                      <<"i", OrZero(WorkingMemory_retrieve(mems[ret'.m].working,
                                                           "episodic_count")) + 1>>
                /\ WorkingMemory_retrieve(mems'[ret'.m].working, "last_observation") =
                      <<"ref", ret'.arg[2]>>]_vars

(***************************************************************************)
(* C19.  retrieve_similar has no side effects: for every query text and    *)
(* every k >= 0 it leaves the stored records and their order, the working  *)
(* store, the fact store and the callers' dicts unchanged, so the results  *)
(* every later call can give are the ones it could give before (on the     *)
(* indexed backend, whose ranking is open, because the collection is       *)
(* unchanged); on the fallback backend a call repeated at once returns the *)
(* same sequence.                                                          *)
(***************************************************************************)
C19_RetrieveSimilarNoSideEffects ==
    [][ret'.op = "retrieve_similar"
       => /\ mems' = mems
          /\ chroma' = chroma
          /\ heap' = heap
          /\ UNCHANGED <<rest, CHROMADB_AVAILABLE, hashSeed, feedbacks, systems, ids>>
          /\ \A q \in Texts, k \in Ks :
                (k = ret'.arg[2] /\ ~mems[ret'.m].episodic.use_chromadb)
                    => ReturnedLast(q, k)' = Returned(ret'.m, q, k)
          /\ (/\ ret.op = "retrieve_similar"
              /\ ret.m = ret'.m
              /\ ret.arg = ret'.arg
              /\ ~mems[ret.m].episodic.use_chromadb)
                => ret'.val = ret.val /\ ret'.status = ret.status]_vars

\* a facade holding a working value, a fact and two records has answered a
\* retrieve_similar with k = 1
C19_Witness ==
    /\ ret.op = "retrieve_similar"
    /\ ret.status = "ok"
    /\ WorkingMemory_retrieve(mems[ret.m].working, "k") = S("v1")
    /\ SemanticMemory_retrieve_fact(mems[ret.m].semantic, "f") = S("v1")
    /\ ret.arg[2] = 1
    /\ Len(RetRecs) = 1
    /\ \/ Len(mems[ret.m].episodic.experiences) = 2
       \/ /\ mems[ret.m].episodic.use_chromadb
          /\ Len(chroma.colls[CollById(mems[ret.m].episodic.collection)].docs) = 2

(***************************************************************************)
(* C20.  On the fallback backend retrieve_similar(text, k), k >= 0,        *)
(* returns exactly the first min(k, n) of the n stored records, whatever   *)
(* the text (k = 0 gives the empty sequence, the default k is 5), and the  *)
(* order of the stored records is the order of insertion: a record of new  *)
(* content is appended, a record of stored content keeps its place.        *)
(***************************************************************************)
\* the values of the fallback dictionary, in its order
Stored(m) ==
    [i \in 1..Len(mems[m].episodic.experiences) |->
        heap[mems[m].episodic.experiences[i].obj]]

StoredLast == Stored(ret.m)

MinOf(a, b) == IF a < b THEN a ELSE b

C20_FallbackFirstK ==
    [][/\ (ret'.op = "retrieve_similar" /\ ~mems[ret'.m].episodic.use_chromadb)
             => /\ ret'.status = "ok"
                /\ RetRecs' = [i \in 1..MinOf(ret'.arg[2], Len(Stored(ret'.m))) |->
                                  Stored(ret'.m)[i]]
                /\ \A q \in Texts :
                      Returned(ret'.m, q, ret'.arg[2]) =
                          {[status |-> "ok", recs |-> RetRecs']}
       /\ (ret'.op = "store_experience" /\ ~mems[ret'.m].episodic.use_chromadb)
             => IF \E i \in 1..Len(Stored(ret'.m)) :
                      DictEq(Stored(ret'.m)[i], heap[ret'.arg[2]])
                THEN /\ Len(StoredLast') = Len(Stored(ret'.m))
                     /\ \A i \in 1..Len(StoredLast') :
                           DictEq(StoredLast'[i], Stored(ret'.m)[i])
                ELSE StoredLast' = Append(Stored(ret'.m), heap[ret'.arg[2]])]_vars

\* a fallback store holding two records of different content has answered
\* k = 1 with the first, or the default k with both
C20_Witness ==
    /\ ret.op = "retrieve_similar"
    /\ ~mems[ret.m].episodic.use_chromadb
    /\ Len(Stored(ret.m)) = 2
    /\ ~DictEq(Stored(ret.m)[1], Stored(ret.m)[2])
    /\ \/ ret.arg[2] = 1 /\ RetRecs = <<Stored(ret.m)[1]>>
       \/ ret.arg[2] = DefaultK /\ RetRecs = Stored(ret.m)

(***************************************************************************)
(* C21.  A malformed record fails the add without damage: store_experience *)
(* of a record json.dumps cannot serialise raises to its caller and leaves *)
(* the stored records, the collections and the callers' dicts as they      *)
(* were, and with them what retrieve_similar returns.                      *)
(***************************************************************************)
C21_MalformedRecordFailsCleanly ==
    [][(ret'.op = "store_experience" /\ ~JsonSerializable(heap[ret'.arg[2]]))
          => /\ ret'.status = "TypeError"
             /\ mems' = mems
             /\ chroma' = chroma
             /\ heap' = heap
             /\ ids' = ids
             /\ \A q \in Texts, k \in Ks :
                   ~mems[ret'.m].episodic.use_chromadb
                       => ReturnedLast(q, k)' = Returned(ret'.m, q, k)]_vars

\* a store that holds a record has refused a malformed one
C21_Witness ==
    /\ ret.op = "store_experience"
    /\ ret.status = "TypeError"
    /\ ~JsonSerializable(heap[ret.arg[2]])
    /\ \/ Len(mems[ret.m].episodic.experiences) = 1
       \/ /\ mems[ret.m].episodic.use_chromadb
          /\ CollById(mems[ret.m].episodic.collection) # 0
          /\ Len(chroma.colls[CollById(mems[ret.m].episodic.collection)].docs) = 1

(***************************************************************************)
(* C22.  Cancellation consistency: whenever tasks running store_experience *)
(* are cancelled, every record a store holds is complete (its id, its      *)
(* document or dict and its metadata are those of one record), a record is *)
(* held only if a task storing it ran to its end, a cancelled task has     *)
(* written nothing, and the cancellation itself changes no store.          *)
(***************************************************************************)
\* the entry is the complete record of a caller's dict
CompleteDoc(d) ==
    \E o \in Objs :
        /\ d.document = experience_str(heap[o])
        /\ d.id = experience_id(heap[o])
        /\ d.metadata = DictGet(heap[o], "timestamp", S("now"))[2]

CompleteEntry(e) ==
    /\ e.obj \in Objs
    /\ e.id = experience_id(heap[e.obj])

\* the ids the store of facade m holds
HeldIds(m) ==
    IF mems[m].episodic.use_chromadb
    THEN IF CollById(mems[m].episodic.collection) = 0 THEN {}
         ELSE LET docs == chroma.colls[CollById(mems[m].episodic.collection)].docs
              IN  {docs[j].id : j \in 1..Len(docs)}
    ELSE {mems[m].episodic.experiences[i].id :
              i \in 1..Len(mems[m].episodic.experiences)}

C22_CancellationConsistency ==
    /\ [](/\ \A c \in 1..Len(chroma.colls) :
               \A j \in 1..Len(chroma.colls[c].docs) : CompleteDoc(chroma.colls[c].docs[j])
          /\ \A m \in Mems :
               \A i \in 1..Len(mems[m].episodic.experiences) :
                   CompleteEntry(mems[m].episodic.experiences[i])
          /\ \A m \in Mems :
               HeldIds(m) = {experience_id(heap[tasks[t].o]) :
                                t \in {u \in Tasks : tasks[u].m = m /\ tasks[u].pc = "done"}})
    /\ [][ret'.op = "cancel" => mems' = mems /\ chroma' = chroma /\ ids' = ids]_vars

\* of two tasks storing different records in one store, the one cancelled
\* before it ran has left nothing and the other has left its record
C22_Witness ==
    /\ Len(tasks) = 2
    /\ tasks[1].pc = "cancelled"
    /\ tasks[2].pc = "done"
    /\ tasks[1].m = tasks[2].m
    /\ ~DictEq(heap[tasks[1].o], heap[tasks[2].o])
    /\ HeldIds(tasks[2].m) = {experience_id(heap[tasks[2].o])}
    /\ ret.op = "retrieve_similar"
    /\ Len(RetRecs) = 1

(***************************************************************************)
(* C23.  Backend selection is fixed at construction: no store_experience,  *)
(* retrieve_similar or cleanup changes the variant (use_chromadb, client,  *)
(* collection handle, collection name) of any store, and every such call   *)
(* operates on that variant: a call on an indexed store never touches a    *)
(* dictionary, a call on a fallback store never touches a collection.      *)
(***************************************************************************)
\* what __init__ chose for the store of facade m
Variant(m) ==
    [use_chromadb |-> mems[m].episodic.use_chromadb,
     client |-> mems[m].episodic.client,
     collection |-> mems[m].episodic.collection,
     collection_name |-> mems[m].episodic.collection_name]

VariantLast == Variant(ret.m)

C23_BackendFixedAtConstruction ==
    /\ [](\A m \in Mems :
            mems[m].episodic.use_chromadb => mems[m].episodic.experiences = <<>>)
    /\ [][/\ \A m \in Mems : mems'[m].episodic.use_chromadb = mems[m].episodic.use_chromadb
                          /\ mems'[m].episodic.client = mems[m].episodic.client
                          /\ mems'[m].episodic.collection = mems[m].episodic.collection
                          /\ mems'[m].episodic.collection_name = mems[m].episodic.collection_name
          /\ ret'.op \in EpisodicOps
                => /\ VariantLast' = Variant(ret'.m)
                   /\ mems[ret'.m].episodic.use_chromadb => mems' = mems
                   /\ ~mems[ret'.m].episodic.use_chromadb => chroma' = chroma]_vars

\* an indexed store that was cleaned up refuses a store_experience as an
\* indexed store, next to a fallback store holding a record
C23_Witness ==
    /\ ret.op = "store_experience"
    /\ ret.status = "raised"
    /\ mems[ret.m].episodic.use_chromadb
    /\ \E m \in Mems : /\ ~mems[m].episodic.use_chromadb
                       /\ Len(mems[m].episodic.experiences) = 1

RegisteredCallable(name) ==
    IF layer.capability_registry
    THEN \E i \in 1..Len(registry.tools) :
            registry.tools[i].name = name /\ registry.tools[i].callable = Callable
    ELSE \E i \in 1..Len(layer._internal_tools.items) :
               /\ layer._internal_tools.items[i].name = name
               /\ layer._internal_tools.items[i].callable = Callable

Held(m) ==
    IF mems[m].episodic.use_chromadb
    THEN IF CollById(mems[m].episodic.collection) = 0 THEN <<>>
         ELSE chroma.colls[CollById(mems[m].episodic.collection)].docs
    ELSE [i \in 1..Len(mems[m].episodic.experiences) |->
             [id |-> mems[m].episodic.experiences[i].id,
              document |-> heap[mems[m].episodic.experiences[i].obj]]]

TierOps == {"working.store", "working.retrieve", "working.clear",
            "semantic.add_fact", "semantic.retrieve_fact"}

C26_OnlyWritePath ==
    [][\A m \in Mems :
          /\ ret'.op \in TierOps
                => /\ Held(m)' = Held(m)
                   /\ mems'[m].episodic = mems[m].episodic
                   /\ chroma' = chroma
          /\ Held(m)' # Held(m)
                => /\ ret'.m = m
                   /\ ret'.status = "ok"
                   /\ \/ /\ ret'.op = "store_experience"
                         /\ Len(Held(m)') \in {Len(Held(m)), Len(Held(m)) + 1}
                         /\ \A i \in 1..Len(Held(m)') :
                               \/ i <= Len(Held(m)) /\ Held(m)'[i] = Held(m)[i]
                               \/ Held(m)'[i].id = ret'.val[2]
                      \/ /\ ret'.op \in CleanupOps
                         /\ Held(m)' = <<>>]_vars

\* the working tier of a facade that holds a value, a fact and an experience
\* has been cleared and the experience is still held
C26_Witness ==
    /\ ret.op = "working.clear"
    /\ Len(Held(ret.m)) = 1
    /\ SemanticMemory_retrieve_fact(mems[ret.m].semantic, "f") = S("v1")
    /\ \A k \in WorkingKeys : WorkingMemory_retrieve(mems[ret.m].working, k) = None

(***************************************************************************)
(* C27.  WorkingStore.retrieve distinguishes a missing key from a stored   *)
(* one: retrieve(k) returns the not-found result, None, if and only if the *)
(* key is not held, that is no store(k, v) was issued since construction   *)
(* or the last clear, also when the value stored is None.                  *)
(***************************************************************************)
C27_RetrieveDistinguishesMissing ==
    [][ret'.op = "working.retrieve"
          => (ret'.val = None <=> mems[ret'.m].working[ret'.arg[2]] = Missing)]_vars

StoredIds(m) ==
    [i \in 1..Len(mems[m].episodic.experiences) |-> mems[m].episodic.experiences[i].id]

StoredIdsLast == StoredIds(ret.m)

ObserverScripts ==
    { <<"store_observation", "store_experience", "store_observation">>,
      <<"store_observation", "cleanup">>,
      <<"retrieve_similar", "store_observation">> }

\* asyncio.create_task(observer(feedback, observation)) for a coroutine that
\* makes the calls of script in order
CreateObserver(f, o, script) ==
    /\ Len(tasks) < MaxTasks
    /\ tasks' = Append(tasks, [coro |-> "observer", m |-> feedbacks[f].memory,
                               o |-> o, script |-> script, pc |-> 1,
                               phase |-> "start", current_count |-> 0,
                               failed |-> FALSE])
    /\ ret' = Ret("create_task", feedbacks[f].memory, <<"obj", o>>, "ok", None)
    /\ UNCHANGED <<registry, layer, CHROMADB_AVAILABLE, hashSeed, heap, chroma, mems, feedbacks, systems, ids>>

\* a store_observation that suspends between reading the counter and writing
\* it back
store_observation_coro_suspending(t) ==
    LET w == mems[tasks[t].m].working
    IN  IF tasks[t].phase = "start"
        THEN [working |-> WorkingMemory_store(w, "last_observation", <<"ref", tasks[t].o>>),
              task |-> [tasks[t] EXCEPT !.phase = "read",
                            !.current_count =
                                OrZero(WorkingMemory_retrieve(w, "episodic_count"))]]
        ELSE [working |-> WorkingMemory_store(w, "episodic_count",
                                              <<"i", tasks[t].current_count + 1>>),
              task |-> [tasks[t] EXCEPT !.phase = "start", !.pc = @ + 1]]

\* the call of store_observation made by task t: the whole body in one step
store_observation_coro(t) ==
    [working |-> store_observation(mems[tasks[t].m].working, tasks[t].o),
     task |-> [tasks[t] EXCEPT !.pc = @ + 1]]

\* the task after a call that returned or raised: an exception ends the task
AfterCall(t, status) ==
    IF status = "ok" THEN [tasks[t] EXCEPT !.pc = @ + 1]
                     ELSE [tasks[t] EXCEPT !.failed = TRUE]

\* the event loop runs task t up to its next switch point
ObserverStep(t) ==
    /\ ~tasks[t].failed
    /\ tasks[t].pc <= Len(tasks[t].script)
    /\ LET m == tasks[t].m
           o == tasks[t].o
           op == tasks[t].script[tasks[t].pc]
       IN  \/ /\ op = "store_observation"
              /\ LET r == store_observation_coro(t)
                 IN  /\ mems' = [mems EXCEPT ![m].working = r.working]
                     /\ tasks' = [tasks EXCEPT ![t] = r.task]
              /\ ret' = Ret("store_observation", m, <<"obj", o>>, "ok", None)
              /\ UNCHANGED <<chroma, ids>>
           \/ /\ op = "store_experience"
              /\ LET r == store_experience(m, o)
                 IN  /\ mems' = r.mems
                     /\ chroma' = r.chroma
                     /\ ids' = IF r.status = "ok" THEN ids \cup {<<heap[o], r.val[2]>>}
                                                  ELSE ids
                     /\ tasks' = [tasks EXCEPT ![t] = AfterCall(t, r.status)]
                     /\ ret' = Ret("store_experience", m, <<"obj", o>>, r.status, r.val)
           \/ /\ op = "retrieve_similar"
              /\ \E r \in retrieve_similar(m, "search", DefaultK) :
                     /\ tasks' = [tasks EXCEPT ![t] = AfterCall(t, r.status)]
                     /\ ret' = Ret("retrieve_similar", m, <<"k", DefaultK>>, r.status, r.val)
              /\ UNCHANGED <<mems, chroma, ids>>
           \/ /\ op = "cleanup"
              /\ LET r == MemorySystem_cleanup(m)
                 IN  /\ mems' = r.mems
                     /\ chroma' = r.chroma
                     /\ tasks' = [tasks EXCEPT ![t] = AfterCall(t, r.status)]
                     /\ ret' = Ret("cleanup", m, None, r.status, None)
              /\ UNCHANGED ids
    /\ UNCHANGED <<registry, layer, CHROMADB_AVAILABLE, hashSeed, heap, feedbacks, systems>>

\* One FeedbackLoop whose memory is shared by the tasks of one event loop.
NextObserve ==
    \/ heap = <<>> /\ NewRecord(RSearch)
    \/ feedbacks = <<>> /\ NewFeedbackLoop
    \/ \E f \in 1..Len(feedbacks), o \in Objs, script \in ObserverScripts :
           CreateObserver(f, o, script)
    \/ \E t \in Tasks : ObserverStep(t)

SpecObserve == Init /\ [][NextObserve]_vars

\* the number of store_observation calls among the first n calls of a script
RECURSIVE CountObservations(_, _)
CountObservations(script, n) ==
    IF n = 0 THEN 0
    ELSE CountObservations(script, n - 1)
         + (IF script[n] = "store_observation" THEN 1 ELSE 0)

\* the number of store_observation calls the first n tasks have made
RECURSIVE ObservationsMade(_)
ObservationsMade(n) ==
    IF n = 0 THEN 0
    ELSE ObservationsMade(n - 1)
         + CountObservations(tasks[n].script, tasks[n].pc - 1)

(***************************************************************************)
(* C29: when several tasks of one event loop share the memory of a         *)
(* FeedbackLoop and interleave store_observation calls with store_         *)
(* experience, retrieve_similar and cleanup calls, then in every           *)
(* interleaving the working entry episodic_count is the number of          *)
(* store_observation calls made so far (absent while none was made): no    *)
(* increment is lost.                                                      *)
(***************************************************************************)
C29_NoLostUpdate ==
    \A f \in 1..Len(feedbacks) :
        OrZero(WorkingMemory_retrieve(mems[feedbacks[f].memory].working,
                                      "episodic_count"))
            = ObservationsMade(Len(tasks))

\* two tasks have each made a store_observation call after another task's
\* call, one of them past an awaited episodic call, and the counter is 2
C29_Witness ==
    /\ Len(tasks) = 2
    /\ tasks[1].pc = 3 /\ tasks[1].script[2] = "store_experience"
    /\ tasks[2].pc = 3 /\ tasks[2].script[1] = "retrieve_similar"
    /\ ret.op = "store_observation"
    /\ ObservationsMade(2) = 2
    /\ \E f \in 1..Len(feedbacks) :
           WorkingMemory_retrieve(mems[feedbacks[f].memory].working,
                                  "episodic_count") = <<"i", 2>>

(***************************************************************************)
(* One CapabilityRegistry under register_tool, unregister_tool and         *)
(* search_tools.                                                           *)
(***************************************************************************)
\* descriptions, one of which repeats a word and names its own tool
RegistryDescriptions == Descriptions \cup {<<"alpha", "search", "alpha">>}

InitRegistry == Init /\ CHROMADB_AVAILABLE /\ hashSeed = 7

NextRegistry ==
    \/ \E name \in ToolNames \cup {BadToolName}, description \in RegistryDescriptions :
           RegisterTool(name, description, Callable)
    \/ \E name \in ToolNames : UnregisterTool(name)
    \/ \E query \in Queries : SearchTools(query)

SpecRegistry == InitRegistry /\ [][NextRegistry]_vars

\* the place of a name in the order of sorted()
SortedPlace(name) == CHOOSE i \in 1..Len(SortedNames) : SortedNames[i] = name

(***************************************************************************)
(* C30: after any sequence of register_tool calls (a name registered again *)
(* with another description included) and unregister_tool calls, every     *)
(* name listed under a token of the search index is a registered tool and  *)
(* is listed there once; and what search_tools returns holds registered    *)
(* tools only, each once, in sorted order.                                 *)
(***************************************************************************)
C30_IndexConsistent ==
    /\ \A i \in 1..Len(registry.index) :
           LET names == registry.index[i].names
           IN  /\ \A j \in 1..Len(names) : has_tool(names[j])
               /\ \A j, k \in 1..Len(names) : names[j] = names[k] => j = k
    /\ ret.op = "search_tools" =>
           LET names == ret.val[2]
           IN  /\ \A j \in 1..Len(names) : has_tool(names[j])
               /\ \A j, k \in 1..Len(names) :
                      j < k => SortedPlace(names[j]) < SortedPlace(names[k])

\* Beta was unregistered and its token stays in the index with no name; alpha
\* was registered twice, last with a description that leaves the token search
\* without a name; a search whose query is part of both tokens returns alpha
\* alone
C30_Witness ==
    /\ ret.op = "search_tools"
    /\ ret.arg = <<"query", "a">>
    /\ ret.val = <<"names", <<"alpha">>>>
    /\ ~has_tool("Beta")
    /\ \E i \in 1..Len(registry.index) :
           registry.index[i].token = "beta" /\ registry.index[i].names = <<>>
    /\ \E i \in 1..Len(registry.index) :
           registry.index[i].token = "search" /\ registry.index[i].names = <<>>
====
